---- MODULE Spec2Model ----
(***************************************************************************)
(* Model of masterService.js (src/master.js): one process that keeps a     *)
(* WhatsApp connection in the global `sock` and serves HTTP endpoints that *)
(* send messages through it.                                               *)
(*                                                                         *)
(* JavaScript values are written as tagged strings: "undefined" is the     *)
(* value of a missing property, "''" the empty string, "false"/"true" the  *)
(* booleans, any other string a non-empty (truthy) value.                  *)
(*                                                                         *)
(* The Baileys library (makeWASocket, useMultiFileAuthState) is not part   *)
(* of the repository.  It is modelled as the environment: it delivers      *)
(* "connection.update" and "creds.update" events on every handle it has    *)
(* created, to the listeners master.js registered on that handle, one      *)
(* event at a time (single-threaded event loop).                           *)
(***************************************************************************)
EXTENDS Integers, Sequences, FiniteSets, TLC

\* ---------------------------------------------------------------- bounds
\* startWhatsApp() calls in a run (the code has no cap).
MaxEstablish == 3
\* creds.update events in a run (the code has no cap).
MaxCreds == 2
\* HTTP send requests begun in a run (the code has no cap).
MaxRequests == 1
\* sendMessage calls awaited at the same time (the code has no cap).
MaxPending == 1

\* ------------------------------------------------------------- JS values
Undefined == "undefined"
EmptyStr == "''"
JsFalse == "false"
JsTrue == "true"

\* JavaScript truthiness of the values above.
Falsy(v) == v \in {Undefined, EmptyStr, JsFalse}

\* a || d
JsOr(a, d) == IF Falsy(a) THEN d ELSE a

\* ------------------------------------------------------------- constants
DEFAULT_TARGET_JID == "YourPhoneNumber@s.whatsapp.net"

\* No handle: the value of `let sock;` before the first assignment.
NoHandle == 0

VARIABLES
  est,          \* est[i]: phase of the i-th startWhatsApp() call
  conn,         \* conn[h]: last connection state the library reported on handle h
  auth,         \* auth[h]: the credential updates contained in handle h's `state`
  sock,         \* the global `sock`: NoHandle or a handle
  disk,         \* credential updates contained in SESSION_FOLDER
  writeQ,       \* saveCreds() writes started and not yet on disk, oldest first
  emitted,      \* number of creds.update events emitted so far
  loggedOut,    \* a close event with status code 401 has been handled
  libHasState,  \* whether the library's handle object carries a `state` property
  pending,      \* sendMessage calls awaited by a send handler
  http,         \* counts of send requests begun / answered / ended uncaught
  hist,         \* history: hist.began[i] = creds.update events emitted before
                \* the i-th startWhatsApp() call, hist.fresh = the handles
                \* created since the latest startWhatsApp() call
  ev            \* the event or request handled by the last step

vars == <<est, conn, auth, sock, disk, writeQ, emitted, loggedOut,
          libHasState, pending, http, hist, ev>>

Handles == 1..Len(conn)
establishCalls == Len(est)

\* The step label of a step that handles no event of interest.
NoEvent == [type |-> "none"]

\* ------------------------------------------------ connection.update events
\* The shapes of a close update: lastDisconnect missing, lastDisconnect.error
\* missing, error.output.statusCode missing, or a status code present.
CloseUpdates ==
  { [connection |-> "close", ld |-> "missing", statusCode |-> Undefined],
    [connection |-> "close", ld |-> "noError", statusCode |-> Undefined],
    [connection |-> "close", ld |-> "noCode",  statusCode |-> Undefined],
    [connection |-> "close", ld |-> "code",    statusCode |-> "401"],
    [connection |-> "close", ld |-> "code",    statusCode |-> "428"] }

\* lastDisconnect?.error?.output?.statusCode
ErrorCode(update) == IF update.ld = "code" THEN update.statusCode ELSE Undefined

NoReconnectWithoutCode(update) ==
  ErrorCode(update) # "401" /\ ErrorCode(update) # Undefined

\* errorCode !== 401
ShouldReconnect(update) == ErrorCode(update) # "401"

\* --------------------------------------------------------------- status
\* GET /status: sock && sock.state
Status ==
  IF sock # NoHandle /\ libHasState THEN "Connected" ELSE "Not connected"

ListeningAtStart == TRUE

\* app.listen() runs once the first startWhatsApp() has resolved.
Listening == est[1] = "done"

\* ----------------------------------------------------------------- Init
Init ==
  /\ est = <<"awaiting">>
  /\ hist = [began |-> <<0>>, fresh |-> {}]
  /\ conn = <<>>
  /\ auth = <<>>
  /\ sock = NoHandle
  /\ disk = {}
  /\ writeQ = <<>>
  /\ emitted = 0
  /\ loggedOut = FALSE
  /\ libHasState \in BOOLEAN
  /\ pending = <<>>
  /\ http = [begun |-> 0, answered |-> 0, uncaught |-> 0]
  /\ ev = NoEvent

\* -------------------------------------------------------- startWhatsApp
\* The i-th startWhatsApp() resumes after `await useMultiFileAuthState`:
\* the state read from SESSION_FOLDER becomes the new handle's auth state,
\* the new handle replaces `sock`, and both listeners are registered on it.
EstablishComplete(i) ==
  /\ est[i] = "awaiting"
  /\ est' = [est EXCEPT ![i] = "done"]
  /\ conn' = Append(conn, "connecting")
  /\ auth' = Append(auth, disk)
  /\ sock' = Len(conn) + 1
  /\ hist' = [hist EXCEPT !.fresh = @ \cup {Len(conn) + 1}]
  /\ ev' = [type |-> "established", attempt |-> i]
  /\ UNCHANGED <<disk, writeQ, emitted, loggedOut, libHasState, pending, http>>

\* useMultiFileAuthState() or makeWASocket() rejects: startWhatsApp() ends
\* without assigning `sock`; nothing in master.js handles the rejection.
EstablishFail(i) ==
  /\ est[i] = "awaiting"
  /\ est' = [est EXCEPT ![i] = "failed"]
  /\ ev' = [type |-> "establishFailed", attempt |-> i]
  /\ UNCHANGED <<conn, auth, sock, disk, writeQ, emitted, loggedOut,
                 libHasState, hist, pending, http>>

\* ------------------------------------------- connection.update listener
ConnOpenReconnects(h) ==
  /\ conn[h] = "connecting"
  /\ establishCalls < MaxEstablish
  /\ conn' = [conn EXCEPT ![h] = "open"]
  /\ est' = Append(est, "awaiting")
  /\ hist' = [began |-> Append(hist.began, emitted), fresh |-> {}]
  /\ ev' = [type |-> "open", h |-> h]
  /\ UNCHANGED <<auth, sock, disk, writeQ, emitted, loggedOut,
                 libHasState, pending, http>>

\* Handle h reports connection === "open".
ConnOpen(h) ==
  /\ conn[h] = "connecting"
  /\ conn' = [conn EXCEPT ![h] = "open"]
  /\ ev' = [type |-> "open", h |-> h]
  /\ UNCHANGED <<est, auth, sock, disk, writeQ, emitted, loggedOut,
                 libHasState, hist, pending, http>>

\* Handle h reports connection === "close".  The listener stays registered
\* on every handle ever created, so the event may come from any of them,
\* and more than once.
ConnClose(h, update) ==
  /\ conn' = [conn EXCEPT ![h] = "close"]
  /\ ev' = [type |-> "close", h |-> h, update |-> update]
  /\ IF ShouldReconnect(update)
       THEN /\ establishCalls < MaxEstablish
            /\ est' = Append(est, "awaiting")
            /\ hist' = [began |-> Append(hist.began, emitted), fresh |-> {}]
            /\ UNCHANGED loggedOut
       ELSE /\ loggedOut' = TRUE
            /\ UNCHANGED <<est, hist>>
  /\ UNCHANGED <<auth, sock, disk, writeQ, emitted, libHasState, pending, http>>

\* Handle h reports an update that is neither close nor open (a QR code,
\* "connecting", ...): the listener does nothing.
ConnOther(h) ==
  /\ conn[h] # "close"
  /\ ev' = [type |-> "update", h |-> h]
  /\ UNCHANGED <<est, conn, auth, sock, disk, writeQ, emitted, loggedOut,
                 libHasState, hist, pending, http>>

\* ------------------------------------------------ creds.update listener
\* Handle h emits creds.update: the library has merged the update into the
\* handle's state and calls saveCreds, which starts an asynchronous write of
\* that state; the emitter does not wait for the promise it returns.
CredsUpdate(h) ==
  /\ emitted < MaxCreds
  /\ emitted' = emitted + 1
  /\ auth' = [auth EXCEPT ![h] = auth[h] \cup {emitted + 1}]
  /\ writeQ' = Append(writeQ, auth'[h])
  /\ ev' = [type |-> "creds", h |-> h, update |-> emitted + 1]
  /\ UNCHANGED <<est, conn, sock, disk, loggedOut, libHasState, hist, pending, http>>

\* The oldest saveCreds() write reaches SESSION_FOLDER.
WriteLand ==
  /\ writeQ # <<>>
  /\ disk' = Head(writeQ)
  /\ writeQ' = Tail(writeQ)
  /\ ev' = [type |-> "written"]
  /\ UNCHANGED <<est, conn, auth, sock, emitted, loggedOut, libHasState, hist,
                 pending, http>>

\* ------------------------------------------------------------ GET /status
GetStatus ==
  /\ Listening
  /\ ev' = [type |-> "status", reply |-> Status]
  /\ UNCHANGED <<est, conn, auth, sock, disk, writeQ, emitted, loggedOut,
                 libHasState, hist, pending, http>>

\* ------------------------------------------------------- request bodies
Kinds == {"Text", "Image", "Video", "Audio", "Document", "Location",
          "Contact", "Reaction", "Poll"}

\* Values a caller may give an optional string / boolean / number property;
\* Undefined is the property left out of the JSON body.
StrValues == {Undefined, EmptyStr, "given"}
BoolValues == {Undefined, JsFalse, JsTrue}
CountValues == {Undefined, "1"}
JidValues == {Undefined, EmptyStr, "someone@s.whatsapp.net"}

\* req.body of each endpoint, with the properties its handler destructures.
BodiesOf(kind) ==
  CASE kind = "Text" ->
         { [kind |-> kind, jid |-> j, text |-> "hello"] : j \in JidValues }
    [] kind = "Image" ->
         { [kind |-> kind, jid |-> j, imageUrl |-> "u", caption |-> c] :
             j \in JidValues, c \in StrValues }
    [] kind = "Video" ->
         { [kind |-> kind, jid |-> j, videoUrl |-> "u", caption |-> c,
            videoNote |-> n] :
             j \in JidValues, c \in StrValues, n \in BoolValues }
    [] kind = "Audio" ->
         { [kind |-> kind, jid |-> j, audioUrl |-> "u", mimetype |-> m] :
             j \in JidValues, m \in StrValues }
    [] kind = "Document" ->
         { [kind |-> kind, jid |-> j, documentUrl |-> "u", mimetype |-> m,
            filename |-> f] :
             j \in JidValues, m \in StrValues, f \in StrValues }
    [] kind = "Location" ->
         { [kind |-> kind, jid |-> j, latitude |-> "6.9", longitude |-> "79.8",
            name |-> n, address |-> a] :
             j \in JidValues, n \in StrValues, a \in StrValues }
    [] kind = "Contact" ->
         { [kind |-> kind, jid |-> j, vcard |-> "BEGIN:VCARD"] :
             j \in JidValues }
    [] kind = "Reaction" ->
         { [kind |-> kind, jid |-> j, reaction |-> "+1", key |-> "k"] :
             j \in JidValues }
    [] kind = "Poll" ->
         { [kind |-> kind, jid |-> j, pollName |-> "q",
            pollValues |-> <<"a", "b">>, selectableCount |-> s,
            toAnnouncementGroup |-> t] :
             j \in JidValues, s \in CountValues, t \in BoolValues }

Bodies == UNION { BodiesOf(k) : k \in Kinds }

\* The requests sent while the connection life cycle runs: POST /sendText.
LifecycleBodies == BodiesOf("Text")

\* --------------------------------------------------------- send handlers
TargetKeepingEmpty(body) ==
  IF body.jid = Undefined THEN DEFAULT_TARGET_JID ELSE body.jid

\* const target = jid || DEFAULT_TARGET_JID;
Target(body) == JsOr(body.jid, DEFAULT_TARGET_JID)

PayloadWithoutDocumentDefaults(body) ==
  CASE body.kind = "Text" -> [text |-> body.text]
    [] body.kind = "Image" ->
         [image |-> [url |-> body.imageUrl],
          caption |-> JsOr(body.caption, EmptyStr)]
    [] body.kind = "Video" ->
         [video |-> [url |-> body.videoUrl],
          caption |-> JsOr(body.caption, EmptyStr),
          gifPlayback |-> JsOr(body.videoNote, JsFalse)]
    [] body.kind = "Audio" ->
         [audio |-> [url |-> body.audioUrl],
          mimetype |-> JsOr(body.mimetype, "audio/mpeg")]
    [] body.kind = "Document" ->
         [document |-> [url |-> body.documentUrl],
          mimetype |-> body.mimetype,
          fileName |-> body.filename]
    [] body.kind = "Location" ->
         [location |-> [degreesLatitude |-> body.latitude,
                        degreesLongitude |-> body.longitude,
                        name |-> JsOr(body.name, EmptyStr),
                        address |-> JsOr(body.address, EmptyStr)]]
    [] body.kind = "Contact" ->
         [contacts |-> [displayName |-> "Contact",
                        contacts |-> <<[vcard |-> body.vcard]>>]]
    [] body.kind = "Reaction" ->
         [react |-> [text |-> body.reaction, key |-> body.key]]
    [] body.kind = "Poll" ->
         [poll |-> [name |-> body.pollName, values |-> body.pollValues,
                    selectableCount |-> body.selectableCount,
                    toAnnouncementGroup |->
                      JsOr(body.toAnnouncementGroup, JsFalse)]]

\* The second argument of sock.sendMessage(target, ...) in each handler.
Payload(body) ==
  CASE body.kind = "Text" -> [text |-> body.text]
    [] body.kind = "Image" ->
         [image |-> [url |-> body.imageUrl],
          caption |-> JsOr(body.caption, EmptyStr)]
    [] body.kind = "Video" ->
         [video |-> [url |-> body.videoUrl],
          caption |-> JsOr(body.caption, EmptyStr),
          gifPlayback |-> JsOr(body.videoNote, JsFalse)]
    [] body.kind = "Audio" ->
         [audio |-> [url |-> body.audioUrl],
          mimetype |-> JsOr(body.mimetype, "audio/mpeg")]
    [] body.kind = "Document" ->
         [document |-> [url |-> body.documentUrl],
          mimetype |-> JsOr(body.mimetype, "application/pdf"),
          fileName |-> JsOr(body.filename, "document")]
    [] body.kind = "Location" ->
         [location |-> [degreesLatitude |-> body.latitude,
                        degreesLongitude |-> body.longitude,
                        name |-> JsOr(body.name, EmptyStr),
                        address |-> JsOr(body.address, EmptyStr)]]
    [] body.kind = "Contact" ->
         [contacts |-> [displayName |-> "Contact",
                        contacts |-> <<[vcard |-> body.vcard]>>]]
    [] body.kind = "Reaction" ->
         [react |-> [text |-> body.reaction, key |-> body.key]]
    [] body.kind = "Poll" ->
         [poll |-> [name |-> body.pollName, values |-> body.pollValues,
                    selectableCount |-> body.selectableCount,
                    toAnnouncementGroup |->
                      JsOr(body.toAnnouncementGroup, JsFalse)]]

\* The "status" text of each handler's success response.
SentText(kind) ==
  CASE kind = "Text" -> "Text message sent"
    [] kind = "Image" -> "Image message sent"
    [] kind = "Video" -> "Video message sent"
    [] kind = "Audio" -> "Audio message sent"
    [] kind = "Document" -> "Document message sent"
    [] kind = "Location" -> "Location message sent"
    [] kind = "Contact" -> "Contact message sent"
    [] kind = "Reaction" -> "Reaction sent"
    [] kind = "Poll" -> "Poll message sent"

\* res.json({ status: "... sent", target })
OnSent(kind, target) ==
  [caught |-> TRUE,
   response |-> [code |-> 200, status |-> SentText(kind), target |-> target]]

Rethrow(message) ==
  [caught |-> FALSE, response |-> [code |-> 500, error |-> message]]

\* catch (error) { res.status(500).json({ error: error.message }) }
Catch(message) ==
  [caught |-> TRUE, response |-> [code |-> 500, error |-> message]]

\* What a handler's run came to: one response, or an exception that left it.
Finish(out, call) ==
  /\ http' = IF out.caught
               THEN [http EXCEPT !.answered = @ + 1]
               ELSE [http EXCEPT !.uncaught = @ + 1]
  /\ ev' = [type |-> IF out.caught THEN "response" ELSE "uncaught",
            call |-> call, response |-> out.response]

\* error.message of the TypeError thrown by undefined.sendMessage.
TypeErrorMessage == "Cannot read properties of undefined"

\* The messages the library reports when sendMessage rejects.
SendErrors == {"Connection Closed", "Timed Out"}

SendBeginOnFirstHandle(body) ==
  /\ Listening
  /\ http.begun < MaxRequests
  /\ Len(pending) < MaxPending
  /\ LET call == [h |-> 1, target |-> Target(body),
                  payload |-> Payload(body), body |-> body]
     IN /\ pending' = Append(pending, call)
        /\ http' = [http EXCEPT !.begun = @ + 1]
        /\ ev' = [type |-> "sendMessage", call |-> call]
  /\ UNCHANGED <<est, conn, auth, sock, disk, writeQ, emitted, loggedOut,
                 libHasState, hist>>

\* A send handler runs up to `await sock.sendMessage(target, payload)`.
\* With `sock` unset the property access throws a TypeError inside the try
\* block; otherwise the call is made on the handle `sock` holds now.
SendBegin(body) ==
  /\ Listening
  /\ http.begun < MaxRequests
  /\ Len(pending) < MaxPending
  /\ LET call == [h |-> sock, target |-> Target(body),
                  payload |-> Payload(body), body |-> body]
     IN IF sock = NoHandle
          THEN /\ LET out == Catch(TypeErrorMessage)
                  IN /\ http' = IF out.caught
                                  THEN [http EXCEPT !.begun = @ + 1,
                                                    !.answered = @ + 1]
                                  ELSE [http EXCEPT !.begun = @ + 1,
                                                    !.uncaught = @ + 1]
                     /\ ev' = [type |-> IF out.caught THEN "response"
                                                      ELSE "uncaught",
                               call |-> call, response |-> out.response]
               /\ UNCHANGED pending
          ELSE /\ pending' = Append(pending, call)
               /\ http' = [http EXCEPT !.begun = @ + 1]
               /\ ev' = [type |-> "sendMessage", call |-> call]
  /\ UNCHANGED <<est, conn, auth, sock, disk, writeQ, emitted, loggedOut,
                 libHasState, hist>>

Without(seq, i) == [j \in 1..(Len(seq) - 1) |-> IF j < i THEN seq[j] ELSE seq[j + 1]]

\* The i-th awaited sendMessage call resolves: the handler answers 200.
\* The library sends only on a handle whose connection is open.
SendResolve(i) ==
  /\ conn[pending[i].h] = "open"
  /\ Finish(OnSent(pending[i].body.kind, pending[i].target), pending[i])
  /\ pending' = Without(pending, i)
  /\ UNCHANGED <<est, conn, auth, sock, disk, writeQ, emitted, loggedOut,
                 libHasState, hist>>

SendRejectReconnects(i, message) ==
  /\ establishCalls < MaxEstablish
  /\ Finish(Catch(message), pending[i])
  /\ pending' = Without(pending, i)
  /\ est' = Append(est, "awaiting")
  /\ hist' = [began |-> Append(hist.began, emitted), fresh |-> {}]
  /\ UNCHANGED <<conn, auth, sock, disk, writeQ, emitted, loggedOut,
                 libHasState>>

\* The i-th awaited sendMessage call rejects: the catch block answers 500.
SendReject(i, message) ==
  /\ Finish(Catch(message), pending[i])
  /\ pending' = Without(pending, i)
  /\ UNCHANGED <<est, conn, auth, sock, disk, writeQ, emitted, loggedOut,
                 libHasState, hist>>

\* The library resolves or rejects an awaited sendMessage call.
Settle ==
  \/ \E i \in 1..Len(pending) : SendResolve(i)
  \/ \E i \in 1..Len(pending) : \E m \in SendErrors : SendReject(i, m)

\* startWhatsApp() and the connection.update listener.
Connection ==
  \/ \E i \in 1..Len(est) : EstablishComplete(i)
  \/ \E i \in 1..Len(est) : EstablishFail(i)
  \/ \E h \in Handles : ConnOpen(h)
  \/ \E h \in Handles : \E u \in CloseUpdates : ConnClose(h, u)
  \/ \E h \in Handles : ConnOther(h)

\* The creds.update listener and the writes it starts.
Credentials ==
  \/ \E h \in Handles : CredsUpdate(h)
  \/ WriteLand

\* The HTTP endpoints.
Requests ==
  \/ GetStatus
  \/ \E b \in LifecycleBodies : SendBegin(b)
  \/ Settle

\* The whole process.
Next == Connection \/ Credentials \/ Requests

Spec == Init /\ [][Next]_vars

\* The process while the library emits no creds.update event.
NextConn == Connection \/ Requests

ConnSpec == Init /\ [][NextConn]_vars

\* The process while no HTTP request arrives.
NextCreds == Connection \/ Credentials

CredsSpec == Init /\ [][NextCreds]_vars

\* ------------------------------------------------------------------------
\* The send handlers alone, for every request body, on a process that is
\* listening with one handle in `sock`: still connecting, open, or closed
\* by a logout (status code 401, after which nothing reconnects).
InitSend ==
  /\ est = <<"done">>
  /\ hist = [began |-> <<0>>, fresh |-> {1}]
  /\ conn \in {<<"connecting">>, <<"open">>, <<"close">>}
  /\ auth = <<{}>>
  /\ sock = 1
  /\ disk = {}
  /\ writeQ = <<>>
  /\ emitted = 0
  /\ loggedOut = (conn[1] = "close")
  /\ libHasState \in BOOLEAN
  /\ pending = <<>>
  /\ http = [begun |-> 0, answered |-> 0, uncaught |-> 0]
  /\ ev = NoEvent

NextSend ==
  \/ \E b \in Bodies : SendBegin(b)
  \/ Settle

SendSpec == InitSend /\ [][NextSend]_vars

\* ========================================================================
\* Properties
\* ========================================================================

\* The manager is Connected: the handle in `sock` has reported open and has
\* not reported close since.
Connected == sock # NoHandle /\ conn[sock] = "open"

\* A startWhatsApp() call is past its call and not yet past its await.
InFlight == { i \in 1..Len(est) : est[i] = "awaiting" }

\* The handles whose connection is opening or open.
Live == { h \in Handles : conn[h] \in {"connecting", "open"} }

\* C1: a send request handled while the manager is not Connected makes no
\* sendMessage call on any handle (it fails with NotConnected instead): a
\* step that calls sendMessage is taken only while Connected.
C1_NoSendCallUnlessConnected ==
  ev.type = "sendMessage" => Connected

\* C2: every close event handled by the connection.update listener whose
\* status code is not 401 (also one without lastDisconnect, error or code)
\* starts exactly one new startWhatsApp() call and touches no earlier one.
C2_TransientCloseEstablishesOnce ==
  [][ (/\ ev'.type = "close"
       /\ ~(ev'.update.ld = "code" /\ ev'.update.statusCode = "401"))
      => /\ Len(est') = Len(est) + 1
         /\ est'[Len(est')] = "awaiting"
         /\ \A i \in 1..Len(est) : est'[i] = est[i] ]_vars

\* C2 witness: a close event without lastDisconnect has been handled as the
\* second reconnect of the run.
C2_Witness ==
  /\ ev.type = "close"
  /\ ev.update.ld = "missing"
  /\ establishCalls = 3
  /\ est[3] = "awaiting"

\* C3: the step that handles a transient close of the Connected session
\* leaves status() not reporting Connected (the manager is Connecting), and
\* the step in which the handle that a reconnect put in `sock` reports open
\* leaves status() reporting Connected.
C3_StatusFollowsReconnect ==
  [][ /\ (/\ Connected
          /\ ev'.type = "close"
          /\ ev'.h = sock
          /\ ~(ev'.update.ld = "code" /\ ev'.update.statusCode = "401"))
         => Status' # "Connected"
      /\ (/\ establishCalls > 1
          /\ ev'.type = "open"
          /\ ev'.h = sock')
         => Status' = "Connected" ]_vars

\* C4: once a close event with status code 401 has been handled, no step
\* starts a startWhatsApp() call.
C4_NoEstablishAfterLogout ==
  [][ loggedOut => Len(est') = Len(est) ]_vars

\* C5: after a close event with status code 401 has been handled, `sock`
\* holds no handle and status() reports not connected.
C5_SlotNulledAfterLogout ==
  loggedOut => (sock = NoHandle /\ Status = "Not connected")

\* C6: at most one connection is open or opening and at most one
\* startWhatsApp() call is in flight.
C6_OneConnectionOneEstablish ==
  /\ Cardinality(Live) <= 1
  /\ Cardinality(InFlight) <= 1

\* C7: when the handling of a creds.update event is complete, SESSION_FOLDER
\* contains that update: in every state every update emitted so far is on
\* disk.
C7_WriteBeforeAcknowledge ==
  \A u \in 1..emitted : u \in disk

\* The value a request field stands for: the default when the field is
\* omitted (or, unless keepEmpty, supplied as the empty string), else the
\* supplied value.
ValueOr(v, d, keepEmpty) ==
  IF v = Undefined \/ (~keepEmpty /\ v = EmptyStr) THEN d ELSE v

\* The recipient every call was made with and, after a 200 answer, reported.
UsesRecipient(keepEmpty) ==
  /\ \A i \in 1..Len(pending) :
       pending[i].target =
         ValueOr(pending[i].body.jid, DEFAULT_TARGET_JID, keepEmpty)
  /\ (ev.type = "response" /\ ev.response.code = 200)
       => /\ ev.call.target =
               ValueOr(ev.call.body.jid, DEFAULT_TARGET_JID, keepEmpty)
          /\ ev.response.target =
               ValueOr(ev.call.body.jid, DEFAULT_TARGET_JID, keepEmpty)

\* C8 as stated: the recipient is the fallback when the request omits it and
\* exactly the supplied value otherwise, the empty string included.
C8_RecipientVerbatim == UsesRecipient(TRUE)

\* C8 as amended: the recipient is exactly the supplied value when that is a
\* non-empty string, and the fallback when the request omits the recipient
\* or supplies the empty string.
C8_RecipientNonEmptyVerbatim == UsesRecipient(FALSE)

\* C8 witness: a request that supplied the empty string was answered 200
\* with the fallback identifier.
C8_Witness ==
  /\ ev.type = "response"
  /\ ev.response.code = 200
  /\ ev.call.body.jid = EmptyStr
  /\ ev.response.target = DEFAULT_TARGET_JID

\* The payload of call c carries every required field as supplied and
\* ValueOr(value, default, keepEmpty) for every optional field of the table.
Forwards(c, keepEmpty) ==
  LET b == c.body
      p == c.payload
  IN CASE b.kind = "Text" -> p.text = b.text
       [] b.kind = "Image" ->
            /\ p.image.url = b.imageUrl
            /\ p.caption = ValueOr(b.caption, EmptyStr, keepEmpty)
       [] b.kind = "Video" ->
            /\ p.video.url = b.videoUrl
            /\ p.caption = ValueOr(b.caption, EmptyStr, keepEmpty)
            /\ p.gifPlayback = ValueOr(b.videoNote, JsFalse, keepEmpty)
       [] b.kind = "Audio" ->
            /\ p.audio.url = b.audioUrl
            /\ p.mimetype = ValueOr(b.mimetype, "audio/mpeg", keepEmpty)
       [] b.kind = "Document" ->
            /\ p.document.url = b.documentUrl
            /\ p.mimetype = ValueOr(b.mimetype, "application/pdf", keepEmpty)
            /\ p.fileName = ValueOr(b.filename, "document", keepEmpty)
       [] b.kind = "Location" ->
            /\ p.location.degreesLatitude = b.latitude
            /\ p.location.degreesLongitude = b.longitude
            /\ p.location.name = ValueOr(b.name, EmptyStr, keepEmpty)
            /\ p.location.address = ValueOr(b.address, EmptyStr, keepEmpty)
       [] b.kind = "Contact" ->
            p.contacts.contacts[1].vcard = b.vcard
       [] b.kind = "Reaction" ->
            /\ p.react.text = b.reaction
            /\ p.react.key = b.key
       [] b.kind = "Poll" ->
            /\ p.poll.name = b.pollName
            /\ p.poll.values = b.pollValues
            /\ p.poll.selectableCount = b.selectableCount
            /\ p.poll.toAnnouncementGroup =
                 ValueOr(b.toAnnouncementGroup, JsFalse, keepEmpty)

\* C9 as stated: the forwarded payload carries the table's default for each
\* omitted optional field and each supplied value unmodified.
C9_DefaultsOnlyWhenOmitted ==
  \A i \in 1..Len(pending) : Forwards(pending[i], TRUE)

\* C9 as amended: the forwarded payload carries the table's default for each
\* optional field that is omitted or supplied as the empty string, and every
\* other supplied value unmodified.
C9_DefaultsWhenOmittedOrEmpty ==
  \A i \in 1..Len(pending) : Forwards(pending[i], FALSE)

\* C9 witness: a Document call is awaited whose request supplied an empty
\* mimetype and no filename.
C9_Witness ==
  \E i \in 1..Len(pending) :
    /\ pending[i].body.kind = "Document"
    /\ pending[i].body.mimetype = EmptyStr
    /\ pending[i].body.filename = Undefined
    /\ pending[i].payload.mimetype = "application/pdf"
    /\ pending[i].payload.fileName = "document"

\* C10: every send request that is no longer awaited has ended in exactly
\* one response and none in an exception that left the handler; a response
\* is 200 with the recipient the call was made with, or 500 with the message
\* the send call reported.
C10_OneResultAsValue ==
  /\ http.uncaught = 0
  /\ http.begun = http.answered + Len(pending)
  /\ ev.type # "uncaught"
  /\ ev.type = "response"
       => \/ /\ ev.response.code = 200
             /\ ev.response.target = ev.call.target
          \/ /\ ev.response.code = 500
             /\ ev.response.error \in SendErrors \cup {TypeErrorMessage}

\* C10 witness: a request was answered 500 after its send call, made on a
\* closed handle, was rejected.
C10_Witness ==
  /\ ev.type = "response"
  /\ ev.response.code = 500
  /\ conn[ev.call.h] = "close"
  /\ http.answered = 1

\* C11: GET /status answers Connected exactly when the handle in `sock` has
\* reported open and has not reported close since (and not connected while
\* an establish is under way, before the first one and after a logout).
C11_StatusTracksConnection ==
  ev.type = "status" => (ev.reply = "Connected" <=> Connected)

\* C12: a send handler calls sendMessage on the handle `sock` holds at that
\* moment, a handle that exists in full; the call stays on that handle until
\* it settles (a reconnect that replaces `sock` meanwhile changes no awaited
\* call), a 200 answer comes from that handle being open, and the answer
\* belongs to the call that was awaited.
C12_OneHandlePerSend ==
  [][ /\ ev'.type = "sendMessage"
           => /\ ev'.call.h = sock
              /\ ev'.call.h \in Handles
              /\ pending' = Append(pending, ev'.call)
      /\ ev'.type \in {"response", "uncaught"}
           => \/ /\ ev'.call.h = NoHandle
                 /\ pending' = pending
              \/ /\ \E i \in 1..Len(pending) :
                      /\ pending[i] = ev'.call
                      /\ pending' = Without(pending, i)
                 /\ ev'.response.code = 200 => conn[ev'.call.h] = "open"
      /\ ev'.type \notin {"sendMessage", "response", "uncaught"}
           => pending' = pending ]_vars

\* C12 witness: a call made on handle 1 was awaited while a reconnect put
\* handle 2 in `sock`, and was then rejected.
C12_Witness ==
  /\ ev.type = "response"
  /\ ev.call.h = 1
  /\ sock = 2

\* C13: an event delivered by a handle that was created before the latest
\* startWhatsApp() call began (a previous handle) starts no startWhatsApp()
\* call, changes no status() answer and starts or lands no write to
\* SESSION_FOLDER.
C13_PreviousHandleAbandoned ==
  [][ (/\ ev'.type \in {"open", "close", "update", "creds"}
       /\ ev'.h \notin hist.fresh)
      => /\ Len(est') = Len(est)
         /\ Status' = Status
         /\ writeQ' = writeQ
         /\ disk' = disk ]_vars

RequestSteps == {"status", "sendMessage", "response", "uncaught"}

\* C15: a status or send handler has run only if the first startWhatsApp()
\* call has completed and put a handle in `sock`; if that call failed, it
\* stays failed and no handler ever runs.
C15_RequestsOnlyAfterFirstEstablish ==
  /\ [](/\ (ev.type \in RequestSteps \/ http.begun > 0 \/ pending # <<>>)
             => (est[1] = "done" /\ sock # NoHandle)
        /\ est[1] = "failed"
             => (ev.type \notin RequestSteps /\ http.begun = 0
                 /\ sock = NoHandle))
  /\ [][est[1] = "failed" => est'[1] = "failed"]_vars

\* C15 witness: a status request was answered after the first
\* startWhatsApp() call completed and before its handle reported open.
C15_Witness ==
  /\ ev.type = "status"
  /\ est = <<"done">>
  /\ conn = <<"connecting">>
  /\ sock = 1

\* C16: a step in which a status or send handler runs or answers changes
\* neither `sock`, nor the handles and the listeners registered on them, nor
\* the startWhatsApp() calls made, nor the credentials in SESSION_FOLDER or
\* on their way to it.
C16_RequestsChangeNoState ==
  [][ ev'.type \in RequestSteps
      => UNCHANGED <<sock, conn, auth, est, disk, writeQ, emitted,
                     loggedOut>> ]_vars

\* C16 witness: a send request was answered 500 while a reconnect's
\* startWhatsApp() call was awaiting.
C16_Witness ==
  /\ ev.type = "response"
  /\ ev.response.code = 500
  /\ est = <<"done", "awaiting">>

\* C17: every startWhatsApp() call that completes gives its new handle an
\* auth state containing every creds.update emitted, by any handle, before
\* that call began.
C17_EstablishLoadsEveryEarlierUpdate ==
  [][ ev'.type = "established"
      => \A u \in 1..hist.began[ev'.attempt] : u \in auth'[Len(auth')] ]_vars

====
